---- MODULE Spec2Model ----
(***************************************************************************)
(* dataclassy/functions.py: fields, as_dict, as_tuple and the recursive    *)
(* conversion _recurse_structure, over Python values.                      *)
(*                                                                         *)
(* A Python value is a record tagged by k:                                 *)
(*   "int" (n), "none", "str" (s: sequence of characters),                 *)
(*   "type"  a data class itself (c: class name),                          *)
(*   "inst"  a data class instance (c: class name, d: the instance         *)
(*           __dict__, a sequence of [key, val] in assignment order),      *)
(*   "nt"    a named tuple instance (e: sequence of [key, val]),           *)
(*   "dict"  (e: sequence of [key, val] in insertion order),               *)
(*   "list", "tuple" (e: sequence of values),                              *)
(*   "raise" an exception propagating out of a call (exc);                 *)
(* and, where object identity matters (the heap machine below),            *)
(*   "ref"   a reference to a heap object (id),                            *)
(*   "set"   a mutable object that is no dict, list or tuple.              *)
(***************************************************************************)
EXTENDS Integers, Sequences, FiniteSets, TLC

\* ---------------------------------------------------------------- bounds
MaxInt == 2
MaxDepth == 2
MaxObj == 2

\* ---------------------------------------------------------------- values
PyInt(i) == [k |-> "int", n |-> i]
NoneV == [k |-> "none"]
Str(s) == [k |-> "str", s |-> s]
TypeObj(c) == [k |-> "type", c |-> c]
Inst(c, d) == [k |-> "inst", c |-> c, d |-> d]
NT(e) == [k |-> "nt", e |-> e]
Dict(e) == [k |-> "dict", e |-> e]
List(e) == [k |-> "list", e |-> e]
Tuple(e) == [k |-> "tuple", e |-> e]
Raise(exc) == [k |-> "raise", exc |-> exc]
Item(key, val) == [key |-> key, val |-> val]

IsRaise(v) == v.k = "raise"

\* ------------------------------------------- the data class collaborator
\* Declared fields of the data classes used as inputs, in definition order:
\* [name, ann], ann = "Internal" for an annotation wrapped in Internal[...].
Annotations(c) ==
  IF c = "Outer"
  THEN << [name |-> <<"a">>, ann |-> "plain"],
          [name |-> <<"_", "b">>, ann |-> "plain"],
          [name |-> <<"c">>, ann |-> "Internal"] >>
  ELSE << [name |-> <<"x", "_">>, ann |-> "plain"],
          [name |-> <<"_", "y">>, ann |-> "plain"] >>

\* Internal.is_internal(annotation)
is_internal(a) == a = "Internal"

\* getattr(obj, '__metaclass__', None): the class attribute the data class
\* mechanism sets, visible on the class and on its instances.
GetMetaclassAttr(obj) ==
  IF obj.k \in {"type", "inst"} THEN "DataClassMeta" ELSE "None"

\* type(obj)
TypeOf(obj) ==
  CASE obj.k = "type" -> "DataClassMeta"
    [] obj.k = "inst" -> obj.c
    [] OTHER -> obj.k

\* obj.__annotations__ resolves to the class's mapping, for the class and
\* for its instances.
AnnotationsOf(obj) == Annotations(obj.c)

\* f.startswith('_')
startswith_underscore(f) == Len(f) >= 1 /\ f[1] = "_"

\* getattr(obj, f): the value stored under f in the instance __dict__.
getattr(obj, f) ==
  LET i == CHOOSE j \in 1..Len(obj.d) : obj.d[j].key = f
  IN  obj.d[i].val

\* hash(v) succeeds: dict and list are unhashable, a tuple or named tuple is
\* hashable iff its elements are, everything else hashes (instances by the
\* default object hash).
RECURSIVE Hashable(_)
Hashable(v) ==
  CASE v.k \in {"dict", "list"} -> FALSE
    [] v.k = "tuple" -> \A i \in 1..Len(v.e) : Hashable(v.e[i])
    [] v.k = "nt" -> \A i \in 1..Len(v.e) : Hashable(v.e[i].val)
    [] OTHER -> TRUE

\* ------------------------------------------------------------ functions.py
is_dataclass(obj) == GetMetaclassAttr(obj) = "DataClassMeta"

is_dataclass_instance(obj) ==
  is_dataclass(obj) /\ TypeOf(obj) # "DataClassMeta"

\* variant: "or" where the source has "and"
_filter_annotations_or(annotations, internals) ==
  IF internals
  THEN annotations
  ELSE LET keep(fa) == ~startswith_underscore(fa.name) \/ ~is_internal(fa.ann)
       IN  SelectSeq(annotations, keep)

_filter_annotations(annotations, internals) ==
  IF internals
  THEN annotations
  ELSE LET keep(fa) == ~startswith_underscore(fa.name) /\ ~is_internal(fa.ann)
       IN  SelectSeq(annotations, keep)

\* variant: iterates the instance __dict__ instead of the annotations
fields_instance_order(dataclass, internals) ==
  IF ~is_dataclass_instance(dataclass)
  THEN Raise("AssertionError")
  ELSE LET fs == _filter_annotations(AnnotationsOf(dataclass), internals)
           kept(it) == \E i \in 1..Len(fs) : fs[i].name = it.key
           d == SelectSeq(dataclass.d, kept)
       IN  Dict([i \in 1..Len(d) |-> Item(Str(d[i].key), d[i].val)])

\* variant: the internals argument is not passed on
fields_default_only(dataclass, internals) ==
  IF ~is_dataclass_instance(dataclass)
  THEN Raise("AssertionError")
  ELSE LET fs == _filter_annotations(AnnotationsOf(dataclass), FALSE)
       IN  Dict([i \in 1..Len(fs) |->
                   Item(Str(fs[i].name), getattr(dataclass, fs[i].name))])

fields(dataclass, internals) ==
  IF ~is_dataclass_instance(dataclass)
  THEN Raise("AssertionError")
  ELSE LET fs == _filter_annotations(AnnotationsOf(dataclass), internals)
       IN  Dict([i \in 1..Len(fs) |->
                   Item(Str(fs[i].name), getattr(dataclass, fs[i].name))])

\* hasattr(var, '_asdict'): named tuples
hasattr_asdict(var) == var.k = "nt"

\* var._asdict(): the ordered mapping of a named tuple's fields
_asdict(var) == Dict(var.e)

\* dict(pairs): insertion order, a repeated key keeps its first position and
\* takes the last value.
RECURSIVE DictInsert(_, _, _)
DictInsert(acc, pairs, i) ==
  IF i > Len(pairs)
  THEN acc
  ELSE LET p == pairs[i]
           at == {j \in 1..Len(acc) : acc[j].key = p.key}
       IN  IF at = {}
           THEN DictInsert(Append(acc, p), pairs, i + 1)
           ELSE DictInsert([j \in 1..Len(acc) |->
                              IF j \in at THEN p ELSE acc[j]], pairs, i + 1)

\* What stops the consumption of the pair generator at pair p, if anything:
\* the recursion on the key raised, the recursion on the value raised, or
\* (dict only) the converted key cannot be hashed.
PairFailure(p, iter_proc) ==
  IF IsRaise(p.key) THEN p.key
  ELSE IF IsRaise(p.val) THEN p.val
  ELSE IF iter_proc = "dict" /\ ~Hashable(p.key) THEN Raise("TypeError")
  ELSE NoneV

\* iter_proc(pairs) where iter_proc is dict (as_dict's dict_factory default)
\* or lambda k_v: tuple(v for k, v in k_v) (as_tuple).  The pairs come from
\* a generator, so the first failing pair decides the exception.
\* variant: as_tuple's lambda keeps the keys instead of the values
ApplyIterProc_keys(iter_proc, pairs) ==
  LET bad == {i \in 1..Len(pairs) : IsRaise(PairFailure(pairs[i], iter_proc))}
  IN  IF bad # {}
      THEN PairFailure(pairs[CHOOSE i \in bad : \A j \in bad : i <= j], iter_proc)
      ELSE IF iter_proc = "dict"
           THEN Dict(DictInsert(<<>>, pairs, 1))
           ELSE Tuple([i \in 1..Len(pairs) |-> pairs[i].key])

ApplyIterProc(iter_proc, pairs) ==
  LET bad == {i \in 1..Len(pairs) : IsRaise(PairFailure(pairs[i], iter_proc))}
  IN  IF bad # {}
      THEN PairFailure(pairs[CHOOSE i \in bad : \A j \in bad : i <= j], iter_proc)
      ELSE IF iter_proc = "dict"
           THEN Dict(DictInsert(<<>>, pairs, 1))
           ELSE Tuple([i \in 1..Len(pairs) |-> pairs[i].val])

\* type(var)(elements): a sequence of the same kind, or the first exception
\* raised while the generator is consumed.
\* variant: the sequence is rebuilt as a list whatever its kind
RebuildSequence_list(kind, es) ==
  LET bad == {i \in 1..Len(es) : IsRaise(es[i])}
  IN  IF bad # {}
      THEN es[CHOOSE i \in bad : \A j \in bad : i <= j]
      ELSE [k |-> "list", e |-> es]

RebuildSequence(kind, es) ==
  LET bad == {i \in 1..Len(es) : IsRaise(es[i])}
  IN  IF bad # {}
      THEN es[CHOOSE i \in bad : \A j \in bad : i <= j]
      ELSE [k |-> kind, e |-> es]

RECURSIVE _recurse_structure(_, _)
\* variant: the values of a mapping are not recursed into
_recurse_structure_keys_only(var, iter_proc) ==
  LET v1 == IF is_dataclass(var) THEN fields(var, TRUE) ELSE var
  IN  IF IsRaise(v1)
      THEN v1
      ELSE LET v2 == IF hasattr_asdict(v1) THEN _asdict(v1) ELSE v1
           IN  CASE v2.k = "dict" ->
                      ApplyIterProc(iter_proc,
                        [i \in 1..Len(v2.e) |->
                           Item(_recurse_structure(v2.e[i].key, iter_proc),
                                v2.e[i].val)])
                 [] v2.k \in {"list", "tuple"} ->
                      RebuildSequence(v2.k,
                        [i \in 1..Len(v2.e) |->
                           _recurse_structure(v2.e[i], iter_proc)])
                 [] OTHER -> v2

_recurse_structure(var, iter_proc) ==
  LET v1 == IF is_dataclass(var) THEN fields(var, TRUE) ELSE var
  IN  IF IsRaise(v1)
      THEN v1
      ELSE LET v2 == IF hasattr_asdict(v1) THEN _asdict(v1) ELSE v1
           IN  CASE v2.k = "dict" ->
                      ApplyIterProc(iter_proc,
                        [i \in 1..Len(v2.e) |->
                           Item(_recurse_structure(v2.e[i].key, iter_proc),
                                _recurse_structure(v2.e[i].val, iter_proc))])
                 [] v2.k \in {"list", "tuple"} ->
                      RebuildSequence(v2.k,
                        [i \in 1..Len(v2.e) |->
                           _recurse_structure(v2.e[i], iter_proc)])
                 [] OTHER -> v2

as_dict(dataclass) ==
  IF ~is_dataclass_instance(dataclass)
  THEN Raise("AssertionError")
  ELSE _recurse_structure(dataclass, "dict")

as_tuple(dataclass) ==
  IF ~is_dataclass_instance(dataclass)
  THEN Raise("AssertionError")
  ELSE _recurse_structure(dataclass, "tuple")

\* ------------------------------------------------------------------ inputs
\* The arguments the entry points are called with: values nested MaxDepth
\* containers deep below a top-level Outer instance, every container kind
\* the conversion distinguishes, instance attributes assigned in every
\* order, and the non-instances (scalars, None, the classes themselves,
\* plain containers).
Leaves == {PyInt(i) : i \in 1..MaxInt} \cup {NoneV, TypeObj("Inner")}

Orders(n) == {p \in [1..n -> 1..n] : \A i, j \in 1..n : p[i] = p[j] => i = j}

\* instances of class c holding vals[i] under the i-th declared name, with
\* the attributes assigned in any order
Instances(c, vals) ==
  LET an == Annotations(c)
  IN  {Inst(c, [i \in 1..Len(an) |-> Item(an[p[i]].name, vals[p[i]])]) :
         p \in Orders(Len(an))}

\* the containers one level around v: a list and a tuple of two elements,
\* a dict of two entries with v as a value, a dict with v as a key (where v
\* can be hashed), a named tuple, and an Inner instance whose attributes
\* were assigned in definition order or in the reverse order
Wrap(v) ==
  {List(<<v, v>>),
   Tuple(<<v, PyInt(1)>>),
   Dict(<<Item(PyInt(2), v), Item(PyInt(1), PyInt(2))>>),
   NT(<<Item(Str(<<"p">>), v)>>)}
  \cup (IF Hashable(v) THEN {Dict(<<Item(v, PyInt(1))>>)} ELSE {})
  \cup Instances("Inner", <<v, PyInt(1)>>)

RECURSIVE Nested(_)
Nested(d) ==
  IF d = 0
  THEN Leaves
  ELSE LET below == Nested(d - 1)
       IN  below \cup UNION {Wrap(v) : v \in below}

Inputs ==
  LET vs == Nested(MaxDepth)
  IN  vs \cup {TypeObj("Outer")}
         \cup UNION {Instances("Outer", <<v, PyInt(1), PyInt(2)>>) : v \in vs}
         \cup UNION {Instances("Outer", <<PyInt(1), v, PyInt(2)>>) : v \in Nested(1)}

\* ------------------------------------------------------------------- state
VARIABLES
  obj,      \* the argument of the call
  call,     \* "none" before the call, then the entry point called
  ret       \* what the call returned or raised

\* The same calls over a heap of objects with identity, one step of the
\* recursion at a time (used where sharing, mutation and cycles matter):
VARIABLES
  heap,     \* sequence of objects; a reference is an index into it
  stack,    \* the active calls of _recurse_structure, innermost last
  pc,       \* "idle", "running", "returned", "raised", "mutated"
  hcall,    \* the entry point called on the heap
  hret      \* the reference returned or the exception raised

tvars == <<obj, call, ret>>
hvars == <<heap, stack, pc, hcall, hret>>
vars == <<obj, call, ret, heap, stack, pc, hcall, hret>>

Init ==
  /\ obj \in Inputs
  /\ call = "none"
  /\ ret = NoneV
  /\ heap = <<>>
  /\ stack = <<>>
  /\ pc = "idle"
  /\ hcall = "none"
  /\ hret = NoneV

CallFields ==
  /\ call = "none"
  /\ \E internals \in BOOLEAN :
       /\ call' = (IF internals THEN "fields_internals" ELSE "fields")
       /\ ret' = fields(obj, internals)
  /\ UNCHANGED <<obj, hvars>>

CallAsDict ==
  /\ call = "none"
  /\ call' = "as_dict"
  /\ ret' = as_dict(obj)
  /\ UNCHANGED <<obj, hvars>>

CallAsTuple ==
  /\ call = "none"
  /\ call' = "as_tuple"
  /\ ret' = as_tuple(obj)
  /\ UNCHANGED <<obj, hvars>>

Next == CallFields \/ CallAsDict \/ CallAsTuple

Spec == Init /\ [][Next]_vars

\* ------------------------------------------------------- property helpers
Called == call # "none"
Returned == Called /\ ~IsRaise(ret)
IsRecordInstance(v) == v.k = "inst"
Keys(d) == [i \in 1..Len(d.e) |-> d.e[i].key]
Values(d) == [i \in 1..Len(d.e) |-> d.e[i].val]
Range(seq) == {seq[i] : i \in 1..Len(seq)}
DeclaredNames(c) == [i \in 1..Len(Annotations(c)) |-> Annotations(c)[i].name]
\* the value the instance holds under a name
Attr(v, name) == (CHOOSE it \in Range(v.d) : it.key = name).val
\* the value of the i-th declared field of an instance
Field(v, i) == Attr(v, DeclaredNames(v.c)[i])
\* values the conversion does not look into
IsLeaf(v) == v.k \notin {"inst", "nt", "dict", "list", "tuple"}

\* C1: fields, as_dict and as_tuple raise the precondition error
\* (AssertionError) on every argument that is not a record instance, and
\* never raise it on a record instance.
C1_PreconditionIffNotInstance ==
  Called => (ret = Raise("AssertionError") <=> ~IsRecordInstance(obj))

\* C8: a value that is not a record instance, named tuple, mapping or
\* list/tuple is a leaf: as_dict and as_tuple of an instance whose first
\* field holds such a value (a record type object included) return, and the
\* value is in the result unchanged.
C8_LeafReturnedUnchanged ==
  (call \in {"as_dict", "as_tuple"} /\ IsRecordInstance(obj)
     /\ \A i \in 1..Len(obj.d) : IsLeaf(obj.d[i].val))
  => /\ ~IsRaise(ret)
     /\ call = "as_dict" => Values(ret)[1] = Field(obj, 1)
     /\ call = "as_tuple" => ret.e[1] = Field(obj, 1)

\* C4: fields(r, internals=True) has exactly the declared names as keys,
\* fields(r) exactly the declared names that neither start with '_' nor
\* carry an Internal annotation, and every key maps to r's current value
\* under that name.
C4_FieldsKeySets ==
  (call \in {"fields", "fields_internals"} /\ IsRecordInstance(obj))
  => /\ ret.k = "dict"
     /\ Len(ret.e) = Cardinality(Range(Keys(ret)))
     /\ call = "fields_internals" =>
          Range(Keys(ret)) = {Str(a.name) : a \in Range(Annotations(obj.c))}
     /\ call = "fields" =>
          Range(Keys(ret)) =
            {Str(a.name) : a \in {b \in Range(Annotations(obj.c)) :
                                    b.name[1] # "_" /\ b.ann # "Internal"}}
     /\ \A it \in Range(ret.e) : it.val = Attr(obj, it.key.s)
     /\ (\A a \in Range(Annotations(obj.c)) :
            a.name[1] # "_" /\ a.ann # "Internal")
          => ret = fields(obj, TRUE)

C4_Witness ==
  /\ call = "fields" /\ obj.k = "inst" /\ obj.c = "Outer"
  /\ Keys(ret) = <<Str(<<"a">>)>>
  /\ Attr(obj, <<"a">>).k = "inst"

\* the subsequences of seq that keep the order of seq
IsSubsequence(sub, seq) ==
  \E pos \in [1..Len(sub) -> 1..Len(seq)] :
    /\ \A i \in 1..Len(sub) : seq[pos[i]] = sub[i]
    /\ \A i, j \in 1..Len(sub) : i < j => pos[i] < pos[j]

\* C5: the keys of fields(r), the keys of as_dict(r) and the values of
\* as_tuple(r) follow the field definition order of r's class, whatever the
\* order the attributes were assigned in; filtering drops entries and never
\* reorders the rest.
C5_DefinitionOrder ==
  (Returned /\ IsRecordInstance(obj))
  => LET names == [i \in 1..Len(Annotations(obj.c)) |->
                     Str(Annotations(obj.c)[i].name)]
     IN  /\ call = "fields_internals" => Keys(ret) = names
         /\ call = "fields" => IsSubsequence(Keys(ret), names)
         /\ call = "as_dict" => Keys(ret) = names
         /\ call = "as_tuple" =>
              /\ Len(ret.e) = Len(names)
              /\ \A i \in 1..Len(names) :
                   IsLeaf(Field(obj, i)) => ret.e[i] = Field(obj, i)

C5_Witness ==
  /\ call = "as_tuple" /\ obj.k = "inst" /\ obj.c = "Outer"
  /\ ~IsRaise(ret)
  /\ [i \in 1..3 |-> obj.d[i].key] = << <<"c">>, <<"a">>, <<"_", "b">> >>
  /\ ret.e[2] = PyInt(1) /\ ret.e[3] = PyInt(2)

\* no record instance, named tuple or dict inside v, v included
RECURSIVE NoMappingInside(_)
NoMappingInside(v) ==
  CASE v.k \in {"inst", "nt", "dict"} -> FALSE
    [] v.k \in {"list", "tuple"} -> \A i \in 1..Len(v.e) : NoMappingInside(v.e[i])
    [] OTHER -> TRUE

\* C2 as stated: for every record instance r, whatever its field values
\* hold, as_tuple(r) is the tuple of the values of as_dict(r) (compared when
\* both calls return).
C2_TupleIsDictValues ==
  (call = "as_tuple" /\ IsRecordInstance(obj)
     /\ ~IsRaise(ret) /\ ~IsRaise(as_dict(obj)))
  => ret = Tuple(Values(as_dict(obj)))

\* C2 amended: for a record instance none of whose field values holds a
\* record instance, named tuple or dict at any depth, as_tuple(r) and
\* as_dict(r) raise the same exception or both return, and then as_tuple(r)
\* is the tuple of the values of as_dict(r).
C2_TupleIsDictValuesWhenFlat ==
  (call = "as_tuple" /\ IsRecordInstance(obj)
     /\ \A i \in 1..Len(obj.d) : NoMappingInside(obj.d[i].val))
  => IF IsRaise(ret)
     THEN as_dict(obj) = ret
     ELSE /\ ~IsRaise(as_dict(obj))
          /\ ret = Tuple(Values(as_dict(obj)))

C2_Witness ==
  /\ call = "as_tuple" /\ obj.k = "inst" /\ ~IsRaise(ret)
  /\ \A i \in 1..Len(obj.d) : NoMappingInside(obj.d[i].val)
  /\ Field(obj, 1) = List(<<Tuple(<<PyInt(2), PyInt(1)>>), Tuple(<<PyInt(2), PyInt(1)>>)>>)
  /\ ret = Tuple(<<Field(obj, 1), PyInt(1), PyInt(2)>>)

\* C3 as stated: as_dict(r) and as_tuple(r) leave the internal fields of the
\* top-level record out of the result.
C3_TopLevelInternalsFiltered ==
  (call \in {"as_dict", "as_tuple"} /\ IsRecordInstance(obj) /\ ~IsRaise(ret))
  => /\ call = "as_dict" => Keys(ret) = Keys(fields(obj, FALSE))
     /\ call = "as_tuple" => Len(ret.e) = Len(fields(obj, FALSE).e)

\* C3 amended: as_dict(r) and as_tuple(r) filter internal fields at no
\* level: when the call returns, every declared field of r, the internal
\* ones included, and every declared field of a record instance nested in r
\* is in the result.
C3_InternalsKeptAtEveryLevel ==
  (call \in {"as_dict", "as_tuple"} /\ IsRecordInstance(obj) /\ ~IsRaise(ret))
  => /\ call = "as_dict" =>
          /\ Keys(ret) = [i \in 1..Len(DeclaredNames(obj.c)) |->
                            Str(DeclaredNames(obj.c)[i])]
          /\ \A i \in 1..Len(ret.e) :
               IsRecordInstance(Field(obj, i)) =>
                 /\ ret.e[i].val.k = "dict"
                 /\ Range(Keys(ret.e[i].val)) =
                      {Str(n) : n \in Range(DeclaredNames(Field(obj, i).c))}
     /\ call = "as_tuple" =>
          /\ Len(ret.e) = Len(DeclaredNames(obj.c))
          /\ \A i \in 1..Len(ret.e) :
               IsRecordInstance(Field(obj, i)) =>
                 /\ ret.e[i].k = "tuple"
                 /\ Len(ret.e[i].e) = Len(DeclaredNames(Field(obj, i).c))

C3_Witness ==
  /\ call = "as_dict" /\ obj.k = "inst" /\ obj.c = "Outer" /\ ~IsRaise(ret)
  /\ Field(obj, 1).k = "inst"
  /\ Keys(ret) = <<Str(<<"a">>), Str(<<"_", "b">>), Str(<<"c">>)>>
  /\ Keys(ret.e[1].val) = <<Str(<<"x", "_">>), Str(<<"_", "y">>)>>

\* a record instance anywhere inside v, v included
RECURSIVE HasInstance(_)
HasInstance(v) ==
  CASE v.k = "inst" -> TRUE
    [] v.k \in {"dict", "nt"} ->
         \E i \in 1..Len(v.e) : HasInstance(v.e[i].key) \/ HasInstance(v.e[i].val)
    [] v.k \in {"list", "tuple"} -> \E i \in 1..Len(v.e) : HasInstance(v.e[i])
    [] OTHER -> FALSE

Converted(v) == _recurse_structure(v, "dict")

\* C7 as stated: under as_dict a field holding a list or tuple becomes a
\* sequence of the same kind and length of the converted elements, and a
\* field holding a mapping becomes a mapping of as many entries, in the
\* same order, of the converted keys and converted values (stated for
\* fields all of whose elements, keys and values convert without raising).
C7_ContainersConvertedElementwise ==
  (call = "as_dict" /\ IsRecordInstance(obj))
  => \A i \in 1..Len(obj.d) :
       LET v == Field(obj, i)
       IN  /\ (/\ v.k \in {"list", "tuple"}
               /\ \A j \in 1..Len(v.e) : ~IsRaise(Converted(v.e[j])))
              => /\ ~IsRaise(ret)
                 /\ ret.e[i].val.k = v.k
                 /\ ret.e[i].val.e = [j \in 1..Len(v.e) |-> Converted(v.e[j])]
           /\ (/\ v.k = "dict"
               /\ \A j \in 1..Len(v.e) :
                    ~IsRaise(Converted(v.e[j].key)) /\ ~IsRaise(Converted(v.e[j].val)))
              => /\ ~IsRaise(ret)
                 /\ ret.e[i].val.k = "dict"
                 /\ ret.e[i].val.e =
                      [j \in 1..Len(v.e) |->
                         Item(Converted(v.e[j].key), Converted(v.e[j].val))]

\* C7 amended: whenever as_dict returns, a field holding a list or tuple has
\* become a sequence of the same kind and length of the converted elements
\* and a field holding a mapping a mapping of as many entries, in the same
\* order, of the converted keys and values; as_dict raises TypeError instead
\* of returning when a key of such a mapping converts to a mapping (the key
\* is or holds a record instance or named tuple), every other key, value and
\* element converting.
C7_ContainersConvertedWhenKeysHashable ==
  (call = "as_dict" /\ IsRecordInstance(obj))
  => \A i \in 1..Len(obj.d) :
       LET v == Field(obj, i)
       IN  /\ (~IsRaise(ret) /\ v.k \in {"list", "tuple"})
              => /\ ret.e[i].val.k = v.k
                 /\ ret.e[i].val.e = [j \in 1..Len(v.e) |-> Converted(v.e[j])]
           /\ (~IsRaise(ret) /\ v.k = "dict")
              => /\ ret.e[i].val.k = "dict"
                 /\ ret.e[i].val.e =
                      [j \in 1..Len(v.e) |->
                         Item(Converted(v.e[j].key), Converted(v.e[j].val))]
           /\ (/\ v.k = "dict"
               /\ \A j \in 1..Len(v.e) :
                    ~IsRaise(Converted(v.e[j].key)) /\ ~IsRaise(Converted(v.e[j].val))
               /\ \E j \in 1..Len(v.e) : ~NoMappingInside(v.e[j].key)
               /\ \A j \in 1..Len(obj.d) : j # i => IsLeaf(Field(obj, j)))
              => ret = Raise("TypeError")

\* a list of two record instances became a list of two mappings
C7_Witness ==
  /\ call = "as_dict" /\ obj.k = "inst" /\ ~IsRaise(ret)
  /\ Field(obj, 1).k = "list" /\ Len(Field(obj, 1).e) = 2
  /\ Field(obj, 1).e[1].k = "inst" /\ Field(obj, 1).e[2].k = "inst"
  /\ ret.e[1].val.k = "list" /\ Len(ret.e[1].val.e) = 2
  /\ ret.e[1].val.e[2] = Dict(<<Item(Str(<<"x", "_">>), PyInt(2)),
                                Item(Str(<<"_", "y">>), PyInt(1))>>)

\* ------------------------------------------------------ the heap machine
\* A value is an immediate (int, type object, named tuple of immediates) or
\* a reference to a heap object: an instance, a list, a dict, a tuple or a
\* set (a mutable object the conversion does not look into).
Ref(i) == [k |-> "ref", id |-> i]
IsRef(v) == v.k = "ref"
Deref(h, v) == IF IsRef(v) THEN h[v.id] ELSE v

NT1 == NT(<<Item(Str(<<"p">>), PyInt(1))>>)
SetObj(n) == [k |-> "set", n |-> n]

\* the objects that exist before the call: 1..MaxObj and, after them, the
\* __annotations__ mapping of class Inner
AnnId == MaxObj + 1
InputIds == 1..AnnId
AnnotationsObject ==
  Dict([i \in 1..Len(Annotations("Inner")) |->
          Item(Str(Annotations("Inner")[i].name),
               Str(<<Annotations("Inner")[i].ann>>))])

\* the deepest the recursion gets on an acyclic input: the entry call, one
\* call per object and one for a named tuple
StackCap == MaxObj + 2

InputRefs == {Ref(i) : i \in 1..MaxObj}

InputObjects ==
  {Inst("Inner", <<Item(<<"x", "_">>, v), Item(<<"_", "y">>, w)>>) :
     v \in InputRefs \cup {PyInt(1)}, w \in {PyInt(1), Ref(1)}}
  \cup {List(<<v>>) : v \in InputRefs \cup {PyInt(1), TypeObj("Inner")}}
  \cup {Dict(<<Item(key, v)>>) :
          key \in {PyInt(1), NT1}, v \in InputRefs \cup {PyInt(1)}}
  \cup {SetObj(0)}

\* the references held by an object
RefsOf(o) ==
  CASE o.k = "inst" -> {it.val : it \in {x \in Range(o.d) : IsRef(x.val)}}
    [] o.k = "dict" -> {it.key : it \in {x \in Range(o.e) : IsRef(x.key)}}
                         \cup {it.val : it \in {x \in Range(o.e) : IsRef(x.val)}}
    [] o.k \in {"list", "tuple"} -> {x \in Range(o.e) : IsRef(x)}
    [] OTHER -> {}

\* ids of the objects reachable from the ids in frontier
RECURSIVE ReachIds(_, _, _)
ReachIds(h, frontier, seen) ==
  IF frontier \subseteq seen
  THEN seen
  ELSE LET new == frontier \ seen
       IN  ReachIds(h, UNION {{r.id : r \in RefsOf(h[i])} : i \in new},
                    seen \cup new)

Reach(h, v) == IF IsRef(v) THEN ReachIds(h, {v.id}, {}) ELSE {}

\* some object reachable from v holds itself, directly or transitively
Cyclic(h, v) ==
  \E i \in Reach(h, v) :
    i \in ReachIds(h, {r.id : r \in RefsOf(h[i])}, {})

\* hash(v) for a value on the heap
RECURSIVE HeapHashable(_, _)
HeapHashable(h, v) ==
  LET o == Deref(h, v)
  IN  CASE o.k \in {"dict", "list", "set"} -> FALSE
        [] o.k = "tuple" -> \A i \in 1..Len(o.e) : HeapHashable(h, o.e[i])
        [] OTHER -> Hashable(o)

\* One call _recurse_structure(var, iter_proc) on var, the object o, up to
\* its first recursive call: it raises (fields' assertion), returns var itself (a leaf), or
\* starts iterating the items of a mapping or the elements of a sequence.
Classify(var, o) ==
  LET v1 == IF is_dataclass(o) THEN fields(o, TRUE) ELSE o
      v2 == IF hasattr_asdict(v1) THEN _asdict(v1) ELSE v1
  IN  IF IsRaise(v1)
      THEN [t |-> "raise", exc |-> v1]
      ELSE CASE v2.k = "dict" ->
                  [t |-> "frame", kind |-> "dict",
                   todo |-> [i \in 1..(2 * Len(v2.e)) |->
                               IF i % 2 = 1 THEN v2.e[(i + 1) \div 2].key
                                            ELSE v2.e[i \div 2].val]]
             [] v2.k \in {"list", "tuple"} ->
                  [t |-> "frame", kind |-> v2.k, todo |-> v2.e]
             [] OTHER -> [t |-> "leaf", val |-> var]

\* variant: a data class instance is returned as it is
Enter_instance_leaf(h, var) ==
  IF Deref(h, var).k = "inst"
  THEN [t |-> "leaf", val |-> var]
  ELSE Classify(var, Deref(h, var))

\* variant: a list is returned as it is, not rebuilt
Enter_list_leaf(h, var) ==
  IF Deref(h, var).k = "list"
  THEN [t |-> "leaf", val |-> var]
  ELSE Classify(var, Deref(h, var))

Enter(h, var) == Classify(var, Deref(h, var))

Frame(kind, todo) == [kind |-> kind, todo |-> todo, done |-> <<>>]

\* the container a finished call constructs from its converted parts
Build(f, iter_proc) ==
  CASE f.kind = "dict" /\ iter_proc = "dict" ->
         Dict(DictInsert(<<>>, [i \in 1..(Len(f.done) \div 2) |->
                                  Item(f.done[2 * i - 1], f.done[2 * i])], 1))
    [] f.kind = "dict" /\ iter_proc = "tuple" ->
         Tuple([i \in 1..(Len(f.done) \div 2) |-> f.done[2 * i]])
    [] OTHER -> [k |-> f.kind, e |-> f.done]

IterProcOf(c) == IF c = "as_dict" THEN "dict" ELSE "tuple"

\* dict(...) hashes the key of each pair as the generator yields it
KeyRejected(h, f, val) ==
  /\ f.kind = "dict"
  /\ hcall = "as_dict"
  /\ Len(f.done) % 2 = 1
  /\ ~HeapHashable(h, f.done[Len(f.done)])

\* a converted value reaches the call that waits for it: the frame at the
\* top of stk
Deliver(h, stk, val) ==
  LET f == stk[Len(stk)]
  IN  IF KeyRejected(h, f, val)
      THEN /\ pc' = "raised"
           /\ hret' = Raise("TypeError")
           /\ stack' = <<>>
           /\ heap' = h
      ELSE /\ pc' = "running"
           /\ hret' = hret
           /\ stack' = [stk EXCEPT ![Len(stk)].done = Append(f.done, val)]
           /\ heap' = h

InitHeap ==
  /\ \E objs \in [1..MaxObj -> InputObjects] :
       heap = [i \in 1..AnnId |-> IF i <= MaxObj THEN objs[i]
                                               ELSE AnnotationsObject]
  /\ stack = <<>>
  /\ pc = "idle"
  /\ hcall = "none"
  /\ hret = NoneV
  /\ obj = NoneV
  /\ call = "none"
  /\ ret = NoneV

\* fields(Ref(1), internals): one flat level, a new dict
HeapFields ==
  /\ pc = "idle"
  /\ \E internals \in BOOLEAN :
       LET r == fields(Deref(heap, Ref(1)), internals)
       IN  /\ hcall' = (IF internals THEN "fields_internals" ELSE "fields")
           /\ IF IsRaise(r)
              THEN pc' = "raised" /\ hret' = r /\ heap' = heap
              ELSE /\ pc' = "returned"
                   /\ heap' = Append(heap, r)
                   /\ hret' = Ref(Len(heap) + 1)
  /\ UNCHANGED <<stack, tvars>>

\* as_dict(Ref(1)) / as_tuple(Ref(1)): the assertion, then the call of
\* _recurse_structure on the argument
HeapConvert ==
  /\ pc = "idle"
  /\ \E c \in {"as_dict", "as_tuple"} :
       /\ hcall' = c
       /\ IF ~is_dataclass_instance(Deref(heap, Ref(1)))
          THEN pc' = "raised" /\ hret' = Raise("AssertionError") /\ stack' = <<>>
          ELSE pc' = "running" /\ hret' = hret
               /\ stack' = <<Frame("root", <<Ref(1)>>)>>
  /\ UNCHANGED <<heap, tvars>>

\* the innermost call takes its next item: a leaf is converted at once, a
\* container starts a nested call, an exception ends the whole call
Descend ==
  /\ pc = "running"
  /\ stack[Len(stack)].todo # <<>>
  /\ LET top == stack[Len(stack)]
         en == Enter(heap, Head(top.todo))
         popped == [stack EXCEPT ![Len(stack)].todo = Tail(top.todo)]
     IN  CASE en.t = "raise" ->
                /\ pc' = "raised"
                /\ hret' = en.exc
                /\ stack' = <<>>
                /\ heap' = heap
           [] en.t = "leaf" -> Deliver(heap, popped, en.val)
           [] en.t = "frame" ->
                /\ Len(stack) < StackCap
                /\ stack' = Append(popped, Frame(en.kind, en.todo))
                /\ UNCHANGED <<heap, pc, hret>>
  /\ UNCHANGED <<hcall, tvars>>

\* the innermost call has converted all its items: it constructs its result
\* and returns it to its caller
Ascend ==
  /\ pc = "running"
  /\ stack[Len(stack)].todo = <<>>
  /\ LET top == stack[Len(stack)]
     IN  IF top.kind = "root"
         THEN /\ pc' = "returned"
              /\ hret' = top.done[1]
              /\ stack' = <<>>
              /\ heap' = heap
         ELSE Deliver(Append(heap, Build(top, IterProcOf(hcall))),
                      SubSeq(stack, 1, Len(stack) - 1),
                      Ref(Len(heap) + 1))
  /\ UNCHANGED <<hcall, tvars>>

\* after the call the caller changes a mutable object it reaches through
\* the result
MutateOutput ==
  /\ pc = "returned"
  /\ \E i \in Reach(heap, hret) :
       /\ heap[i].k \in {"list", "dict", "set"}
       /\ heap' = [heap EXCEPT ![i] =
            CASE heap[i].k = "list" -> List(Append(heap[i].e, PyInt(0)))
              [] heap[i].k = "dict" ->
                   Dict(Append(heap[i].e, Item(PyInt(0), PyInt(0))))
              [] OTHER -> SetObj(1)]
  /\ pc' = "mutated"
  /\ UNCHANGED <<stack, hcall, hret, tvars>>

NextHeap == HeapFields \/ HeapConvert \/ Descend \/ Ascend \/ MutateOutput

SpecHeap == InitHeap /\ [][NextHeap]_vars

\* the interpreter runs a started call on: it is single-threaded and
\* synchronous, nothing can suspend the recursion
SpecHeapFair == SpecHeap /\ WF_vars(Descend) /\ WF_vars(Ascend)

\* --------------------------------------------- the two models agree
\* the tree a heap value stands for (acyclic heaps only)
RECURSIVE Unfold(_, _)
Unfold(h, v) ==
  LET o == Deref(h, v)
  IN  CASE o.k = "inst" ->
             Inst(o.c, [i \in 1..Len(o.d) |->
                          Item(o.d[i].key, Unfold(h, o.d[i].val))])
        [] o.k \in {"dict", "nt"} ->
             [k |-> o.k, e |-> [i \in 1..Len(o.e) |->
                          Item(Unfold(h, o.e[i].key), Unfold(h, o.e[i].val))]]
        [] o.k \in {"list", "tuple"} ->
             [k |-> o.k, e |-> [i \in 1..Len(o.e) |-> Unfold(h, o.e[i])]]
        [] OTHER -> o

\* On an acyclic heap the step-by-step recursion ends with the value, or
\* the exception, that the recursive definition computes.
HeapAgreesWithFunctions ==
  (pc \in {"returned", "raised"} /\ ~Cyclic(heap, Ref(1)))
  => LET arg == Unfold(heap, Ref(1))
         res == IF IsRaise(hret) THEN hret ELSE Unfold(heap, hret)
     IN  CASE hcall = "fields" -> res = fields(arg, FALSE)
           [] hcall = "fields_internals" -> res = fields(arg, TRUE)
           [] hcall = "as_dict" -> res = as_dict(arg)
           [] hcall = "as_tuple" -> res = as_tuple(arg)

\* --------------------------------------------------- heap properties
Finished == pc \in {"returned", "raised", "mutated"}
Converting == hcall \in {"as_dict", "as_tuple"}
\* a record type object held by an object reachable from v
HoldsTypeObject(h, v) ==
  \E i \in Reach(h, v) :
    \/ h[i].k = "inst" /\ \E it \in Range(h[i].d) : it.val.k = "type"
    \/ h[i].k \in {"list", "tuple"} /\ \E x \in Range(h[i].e) : x.k = "type"
    \/ h[i].k = "dict" /\ \E it \in Range(h[i].e) : it.val.k = "type" \/ it.key.k = "type"

\* C9 as stated: as_dict and as_tuple return a result on every acyclic
\* input, and on an input in which an instance holds itself transitively
\* the call reaches no final state (stated for inputs that hold no record
\* type object).
C9_ReturnsIffAcyclic ==
  (Converting /\ is_dataclass_instance(heap[1]) /\ ~HoldsTypeObject(heap, Ref(1)))
  => IF Cyclic(heap, Ref(1)) THEN ~Finished ELSE pc # "raised"

\* C9 amended: on every acyclic input as_dict and as_tuple terminate, with
\* a result or with an exception; there is no cycle detection, so on an
\* input in which an instance holds itself transitively the call never
\* returns a result: the recursion goes on unless an exception raised
\* before it re-enters the cycle ends the call.
C9_TerminatesIfAcyclicNeverReturnsIfCyclic ==
  /\ (pc = "running" /\ ~Cyclic(heap, Ref(1))) ~> Finished
  /\ [](Converting /\ Cyclic(heap, Ref(1)) => pc \notin {"returned", "mutated"})

\* the recursion is inside the cycle a second time, as deep as the model
\* follows it
C9_Witness ==
  /\ hcall = "as_dict" /\ pc = "running"
  /\ Cyclic(heap, Ref(1))
  /\ Len(stack) = StackCap

\* C10 as stated: every mapping or sequence in the output of fields,
\* as_dict and as_tuple is a new container, none of them an object of the
\* input.
C10_OutputSharesNoContainer ==
  pc = "returned" =>
    \A i \in Reach(heap, hret) :
      heap[i].k \in {"dict", "list", "tuple"} => i \notin InputIds

InputUnchanged == \A i \in InputIds : heap'[i] = heap[i]
Changed == {i \in 1..Len(heap) : heap'[i] # heap[i]}

\* C10 amended: no call changes an object of its input (the instance, the
\* class's annotation mapping, the containers reachable from the instance);
\* every dict and list in the output of as_dict and as_tuple is a new
\* container, and so is the mapping fields returns (never the annotation
\* mapping), so a later change to one of these leaves the input unchanged;
\* the values in the mapping fields returns are the instance's attribute
\* values themselves, not copies.
C10_InputUntouchedOutputContainersNew ==
  /\ [][(pc \in {"idle", "running"}) => InputUnchanged]_vars
  /\ []((pc = "returned" /\ Converting) =>
          \A i \in Reach(heap, hret) :
            heap[i].k \in {"dict", "list"} => i \notin InputIds)
  /\ []((pc = "returned" /\ ~Converting) =>
          /\ hret.id \notin InputIds
          /\ heap[hret.id].k = "dict"
          /\ \A it \in Range(heap[hret.id].e) : it.val = Attr(heap[1], it.key.s))
  /\ [][(pc' = "mutated" /\ Converting
           /\ \A i \in Changed : heap[i].k \in {"dict", "list"})
        => InputUnchanged]_vars
  /\ [][(pc' = "mutated" /\ ~Converting /\ Changed = {hret.id})
        => InputUnchanged]_vars

\* a list of the output of as_dict was changed, the list of the input it was
\* converted from was not
C10_Witness ==
  /\ hcall = "as_dict" /\ pc = "mutated"
  /\ heap[1].d[1].val = Ref(2)
  /\ heap[2] = List(<<PyInt(1)>>)
  /\ \E i \in (AnnId + 1)..Len(heap) : heap[i] = List(<<PyInt(1), PyInt(0)>>)

====
